---- MODULE Spec2Model ----
(***************************************************************************)
(* Model of the tagged Vulkan host-memory allocator adapter,               *)
(* 2025/crowbar/src/render/alloc.rs: make_layout, the MemoryTag header     *)
(* placed directly before every payload, the callbacks vk_alloc,           *)
(* vk_realloc and vk_free, and the usage counters of CrowbarVkAllocator.   *)
(*                                                                         *)
(* usize is modelled with UsizeBits bits instead of 64 (the arithmetic of  *)
(* Layout and of the atomic counters is kept, modulo 2^UsizeBits).         *)
(* Memory is modelled cell by cell: one cell per byte of every block the   *)
(* underlying allocator has handed out.                                    *)
(***************************************************************************)
EXTENDS Integers, Sequences, FiniteSets, TLC

\* ------------------------------------------------------------------------
\* Bounds of the model
\* ------------------------------------------------------------------------
UsizeBits == 10          \* width of usize in the model
MaxLive == 2             \* payload pointers live at the same time
MaxFailures == 1         \* failures of the underlying allocator in one run
MaxPlacements == 1       \* addresses the underlying allocator chooses among
HeapTop == 136           \* end of the address range the heap hands out
MaxThreads == 2          \* threads that call the callbacks at the same time
LayoutSpan == 80         \* sizes and aligns make_layout is tried on, see below

UsizeMax == 2^UsizeBits - 1
IsizeMax == 2^(UsizeBits - 1) - 1

\* requests the caller makes
Requests ==              \* <<size, align>>
    {<<4, 8>>, <<8, 8>>, <<4, 64>>, <<4, 3>>, <<UsizeMax, 1>>, <<4, UsizeMax>>}
Scopes == {4}            \* SystemAllocationScope::INSTANCE
HeapBottom == 8          \* first address the heap hands out
PatternSeed == 37        \* first byte of the pattern a caller writes

\* ------------------------------------------------------------------------
\* Integers of the machine
\* ------------------------------------------------------------------------
NULL == 0

Wrap(n) == n % (2^UsizeBits)

Max(a, b) == IF a >= b THEN a ELSE b

Min(a, b) == IF a <= b THEN a ELSE b

IsPowerOfTwo(n) == \E k \in 0..(UsizeBits - 1) : n = 2^k

None == [none |-> TRUE]

\* ------------------------------------------------------------------------
\* MemoryTag and Layout
\* ------------------------------------------------------------------------
MT_MAGIC == "7EE7ABBACAFEB00B"

AlignOfMemoryTag == 8

\* magic, size, align, base: 8 bytes each, scope: 4 bytes, padded to 8;
\* the magic field exists in debug builds only
SizeOfMemoryTag(dbg) == IF dbg THEN 40 ELSE 32

MT_LAYOUT(dbg) == [size |-> SizeOfMemoryTag(dbg), align |-> AlignOfMemoryTag]

\* Layout::from_size_align
from_size_align(size, align) ==
    IF ~IsPowerOfTwo(align) THEN None
    ELSE IF size > IsizeMax - (align - 1) THEN None
    ELSE [size |-> size, align |-> align]

\* a Layout::extend that puts next right behind self
PaddingNone(len, align) == 0

\* Layout::padding_needed_for, align a power of two
padding_needed_for(len, align) ==
    LET up == Wrap(len + align - 1)
        rounded == up - (up % align)
    IN  Wrap(rounded - len)

\* Layout::extend: (combined layout, offset of next)
extend(self, next) ==
    LET new_align == Max(self.align, next.align)
        offset == self.size + padding_needed_for(self.size, next.align)
        new_size == offset + next.size
    IN  IF offset > UsizeMax \/ new_size > UsizeMax THEN None
        ELSE IF from_size_align(new_size, new_align) = None THEN None
        ELSE [layout |-> from_size_align(new_size, new_align), offset |-> offset]

\* a make_layout that takes the smaller of the two alignments
PayloadAlignMin(align) == Min(align, AlignOfMemoryTag)

PayloadAlign(align) == Max(align, AlignOfMemoryTag)

make_layout(dbg, size, align) ==
    LET payload == from_size_align(size, PayloadAlign(align))
    IN  IF payload = None THEN None ELSE extend(MT_LAYOUT(dbg), payload)

\* ------------------------------------------------------------------------
\* Memory cells
\* ------------------------------------------------------------------------
\* a cell holds a byte 0..255 or one of these; the first cell of a MemoryTag
\* is TagStart (the fields are kept in the block's tags), the others TagRest
Uninit == 0 - 1

TagRest == 0 - 2

TagStart == 0 - 3

Unmapped == 0 - 4

Byte(v) == v % 256

\* ------------------------------------------------------------------------
\* State
\* ------------------------------------------------------------------------
VARIABLES
    debug,             \* cfg(debug_assertions) of the build
    allocated,         \* CrowbarVkAllocator::allocated
    driver_allocated,  \* CrowbarVkAllocator::driver_allocated
    heap,              \* blocks of the underlying allocator: base -> [layout, mem]
    live,              \* payload pointers the caller holds -> the size requested
    status,            \* "running", or how the process ended
    last,              \* the last call and what was observed of it
    failures,          \* failures of the underlying allocator so far
    all_allocs_ok,     \* every call so far was an allocate that returned a pointer
    threads,           \* where each thread is in the callback it runs
    serial             \* the counter of the same calls run one after another

vars == <<debug, allocated, driver_allocated, heap, live, status, last,
          failures, all_allocs_ok, threads, serial>>

\* ------------------------------------------------------------------------
\* Memory
\* ------------------------------------------------------------------------
BlockOf(h, addr) ==
    {b \in DOMAIN h : b <= addr /\ addr < b + h[b].layout.size}

Load(h, addr) ==
    IF BlockOf(h, addr) = {} THEN Unmapped
    ELSE LET b == CHOOSE b \in BlockOf(h, addr) : TRUE
         IN  h[b].mem[addr - b + 1]

\* the fields of the tag that starts at addr
LoadTag(h, addr) ==
    LET b == CHOOSE b \in BlockOf(h, addr) : TRUE
    IN  h[b].tags[addr - b + 1]

\* the tags of a block whose first cell is still there
TagsIn(mem, tags) == [i \in {j \in DOMAIN tags : mem[j] = TagStart} |-> tags[i]]

PayloadBytes(h, p, n) == [i \in 1..n |-> Load(h, p + i - 1)]

Pattern(n) == [i \in 1..n |-> Byte(PatternSeed + i - 1)]

Without(f, x) == [y \in DOMAIN f \ {x} |-> f[y]]

With(f, x, v) == [y \in DOMAIN f \cup {x} |-> IF y = x THEN v ELSE f[y]]

\* ------------------------------------------------------------------------
\* The underlying allocator (TAlloc: Allocator)
\* ------------------------------------------------------------------------
Overlaps(h, base, size) ==
    \E b \in DOMAIN h : base < b + h[b].layout.size /\ b < base + size

Candidates(h, layout) ==
    {b \in {layout.align * k : k \in 1..(HeapTop \div layout.align)} :
        /\ b >= HeapBottom
        /\ b + layout.size <= HeapTop
        /\ ~Overlaps(h, b, layout.size)}

\* the allocator returns any block that fits the layout; the model lets it
\* choose among the lowest MaxPlacements such addresses
Placements(h, layout) ==
    LET c == Candidates(h, layout)
    IN  {b \in c : Cardinality({x \in c : x < b}) < MaxPlacements}

\* Allocator::allocate: a fresh block, its contents uninitialized
AllocBlock(layout) ==
    [layout |-> layout, mem |-> [i \in 1..layout.size |-> Uninit],
     tags |-> <<>>]

\* Allocator::grow / Allocator::shrink: the contents of the old block are
\* kept up to the smaller of the two sizes, counted from the block's start
MovedBlock(old, layout) ==
    LET mem == [i \in 1..layout.size |->
                   IF i <= Min(old.layout.size, layout.size) THEN old.mem[i]
                   ELSE Uninit]
    IN  [layout |-> layout, mem |-> mem, tags |-> TagsIn(mem, old.tags)]

\* the block the allocator was given is one it handed out, with that layout
OwnsBlock(h, ptr, layout) == ptr \in DOMAIN h /\ h[ptr].layout = layout

\* ------------------------------------------------------------------------
\* Tags
\* ------------------------------------------------------------------------
TagAddr(dbg, p) == Wrap(p - SizeOfMemoryTag(dbg))

\* as_tag_and_block can only yield a tag where one was written
TagReadable(h, dbg, p) == Load(h, TagAddr(dbg, p)) = TagStart

as_tag_and_block(h, dbg, p) == LoadTag(h, TagAddr(dbg, p))

validate_alloc(h, dbg, p) ==
    IF dbg THEN as_tag_and_block(h, dbg, p).magic = MT_MAGIC ELSE TRUE

TagLayout(tag) == [size |-> tag.size, align |-> tag.align]

\* a tag that records the alignment of MemoryTag instead of the layout's
NewTagOwnAlign(dbg, allocated_ptr, layout, scope) ==
    [magic |-> IF dbg THEN MT_MAGIC ELSE "",
     size |-> layout.size,
     align |-> AlignOfMemoryTag,
     scope |-> scope,
     base |-> allocated_ptr]

\* the tag vk_alloc and vk_realloc set up
NewTag(dbg, allocated_ptr, layout, scope) ==
    [magic |-> IF dbg THEN MT_MAGIC ELSE "",
     size |-> layout.size,
     align |-> layout.align,
     scope |-> scope,
     base |-> allocated_ptr]

\* a tag written at the start of the block instead of before the payload
WriteTagAtBase(dbg, block, off, tag) ==
    LET mem == [i \in DOMAIN block.mem |->
                   IF i = 1 THEN TagStart
                   ELSE IF i <= SizeOfMemoryTag(dbg) THEN TagRest
                   ELSE block.mem[i]]
    IN  [block EXCEPT !.mem = mem,
                      !.tags = With(TagsIn(mem, block.tags), 1, tag)]

\* the tag is written to the bytes right before offset off of the block
WriteTag(dbg, block, off, tag) ==
    LET first == off - SizeOfMemoryTag(dbg) + 1
        mem == [i \in DOMAIN block.mem |->
                   IF i = first THEN TagStart
                   ELSE IF first < i /\ i <= off THEN TagRest
                   ELSE block.mem[i]]
    IN  [block EXCEPT !.mem = mem,
                      !.tags = With(TagsIn(mem, block.tags), first, tag)]

\* ------------------------------------------------------------------------
\* The counter updates
\* ------------------------------------------------------------------------
AllocCounter(c, l) == Wrap(c + l.layout.size)

\* a vk_alloc that counts the block in driver_allocated as well
DriverCounterAdds(c, l) == Wrap(c + l.layout.size)

\* vk_alloc adds to data.allocated only: driver_allocated stays as it is
DriverCounter(c, l) == c

Grow == "Grow"

Shrink == "Shrink"

GrowOrShrink(old_layout, l) ==
    IF old_layout.size < l.layout.size THEN Grow ELSE Shrink

\* a vk_realloc that forgets the counter when it shrinks
ReallocCounterGrowOnly(c, gos, old_layout, l) ==
    IF gos = Grow THEN Wrap(c + (l.layout.size - old_layout.size)) ELSE c

ReallocCounter(c, gos, old_layout, l) ==
    IF gos = Grow THEN Wrap(c + (l.layout.size - old_layout.size))
    ELSE Wrap(c - (old_layout.size - l.layout.size))

FreeCounter(c, size) == Wrap(c - size)

\* a vk_realloc that gives up the old block before it looks at the result
FailedReallocHeapFreed(h, base_ptr) == Without(h, base_ptr)

\* vk_realloc returns null on Err and touches nothing of the old block
FailedReallocHeap(h, base_ptr) == h

\* a counter update made of a load at the start of the call and a store
LoadThenStore(current, seen) == seen

\* fetch_add and fetch_sub read the counter in the step that writes it
AtomicRead(current, seen) == current

\* ------------------------------------------------------------------------
\* What is recorded of a call
\* ------------------------------------------------------------------------
NoCall == [fn |-> "none"]

Tids == 1..MaxThreads

\* a thread outside the callbacks, holding ptr (or no pointer)
IdleThread(ptr, raced) ==
    [pc |-> "idle", ptr |-> ptr, l |-> None, old |-> None, seen |-> 0,
     raced |-> raced]

Observed(op, size, align, scope, original, ret, call, old_size, read_tag) ==
    [op |-> op, size |-> size, align |-> align, scope |-> scope,
     original |-> original, ret |-> ret, pre_allocated |-> allocated,
     call |-> call, old_size |-> old_size, read_tag |-> read_tag]

\* CrowbarVkAllocator::new, in a build with or without debug_assertions
New(dbg) ==
    /\ debug = dbg
    /\ allocated = 0
    /\ driver_allocated = 0
    /\ heap = <<>>
    /\ live = <<>>
    /\ status = "running"
    /\ last = [op |-> "new", size |-> 0, align |-> 0, scope |-> 0,
               original |-> NULL, ret |-> NULL, pre_allocated |-> 0,
               call |-> NoCall, old_size |-> 0, read_tag |-> FALSE]
    /\ failures = 0
    /\ all_allocs_ok = TRUE
    /\ threads = [t \in Tids |-> IdleThread(NULL, FALSE)]
    /\ serial = 0

Init == New(TRUE)

InitRelease == New(FALSE)

\* ------------------------------------------------------------------------
\* vk_alloc
\* ------------------------------------------------------------------------
vk_alloc(size, align, scope) ==
    /\ status = "running"
    /\ UNCHANGED <<threads, serial>>
    /\ LET l == make_layout(debug, size, align)
       IN  IF l = None
           THEN /\ last' = Observed("alloc", size, align, scope, NULL, NULL,
                                    NoCall, 0, FALSE)
                /\ all_allocs_ok' = FALSE
                /\ UNCHANGED <<debug, allocated, driver_allocated, heap, live,
                               status, failures>>
           ELSE \/ /\ failures < MaxFailures
                   /\ allocated' = AllocCounter(allocated, l)
                   /\ driver_allocated' = DriverCounter(driver_allocated, l)
                   /\ failures' = failures + 1
                   /\ all_allocs_ok' = FALSE
                   /\ last' = Observed("alloc", size, align, scope, NULL, NULL,
                                [fn |-> "allocate", layout |-> l.layout,
                                 result |-> "err"], 0, FALSE)
                   /\ UNCHANGED <<debug, heap, live, status>>
                \/ \E base \in Placements(heap, l.layout) :
                   LET block == base + l.offset
                       tag == NewTag(debug, base, l.layout, scope)
                   IN  /\ Cardinality(DOMAIN live) < MaxLive
                       /\ allocated' = AllocCounter(allocated, l)
                       /\ driver_allocated' = DriverCounter(driver_allocated, l)
                       /\ heap' = With(heap, base,
                              WriteTag(debug, AllocBlock(l.layout), l.offset, tag))
                       /\ live' = With(live, block, size)
                       /\ last' = Observed("alloc", size, align, scope, NULL,
                                block, [fn |-> "allocate", layout |-> l.layout,
                                        result |-> "ok"], 0, FALSE)
                       /\ UNCHANGED <<debug, status, failures, all_allocs_ok>>

\* ------------------------------------------------------------------------
\* Reading a tag where none was written is undefined behaviour: the read
\* faults, or it yields garbage, which the debug assertion rejects or which
\* the callback goes on to use
\* ------------------------------------------------------------------------
GarbageSizes == {0, 8}

\* neither vk_free nor vk_realloc clears the tag of the block it gives back:
\* right after the call that released original's block, the bytes before
\* original may still hold what that call read there
StaleTags(original) ==
    IF \/ original = NULL
       \/ last.original # original
       \/ Load(heap, TagAddr(debug, original)) # Unmapped
    THEN {}
    ELSE IF last.call.fn = "deallocate"
    THEN IF last.call.result = "ok"
         THEN {[base |-> last.call.ptr, size |-> last.call.layout.size,
                align |-> last.call.layout.align]}
         ELSE {}
    ELSE IF last.call.fn \in {"grow", "shrink"}
    THEN IF last.call.result = "ok" /\ last.ret # original
         THEN {[base |-> last.call.ptr, size |-> last.call.old.size,
                align |-> last.call.old.align]}
         ELSE {}
    ELSE {}

UndefinedTagRead(op, size, align, scope, original) ==
    \/ /\ status' = "crashed"
       /\ allocated' = allocated
       /\ last' = Observed(op, size, align, scope, original, NULL, NoCall,
                           0, TRUE)
    \/ /\ debug
       /\ status' = "panicked"
       /\ allocated' = allocated
       /\ last' = Observed(op, size, align, scope, original, NULL, NoCall,
                           0, TRUE)
    \/ \E g \in GarbageSizes :
       /\ status' = "undefined"
       /\ allocated' = FreeCounter(allocated, g)
       /\ last' = Observed(op, size, align, scope, original, NULL,
                           [fn |-> "garbage"], 0, TRUE)
    \/ \E t \in StaleTags(original) :
       LET old_layout == TagLayout(t)
           l == make_layout(debug, size, align)
           grow_or_shrink == GrowOrShrink(old_layout, l)
       IN  /\ status' = "undefined"
           /\ allocated' =
                 IF op = "free" THEN FreeCounter(allocated, t.size)
                 ELSE ReallocCounter(allocated, grow_or_shrink, old_layout, l)
           /\ last' = Observed(op, size, align, scope, original, NULL,
                 IF op = "free"
                 THEN [fn |-> "deallocate", ptr |-> t.base,
                       layout |-> old_layout, result |-> "undefined"]
                 ELSE [fn |-> IF grow_or_shrink = Grow THEN "grow"
                              ELSE "shrink",
                       ptr |-> t.base, old |-> old_layout,
                       new |-> l.layout, result |-> "undefined"],
                 0, TRUE)

\* ------------------------------------------------------------------------
\* vk_realloc
\* ------------------------------------------------------------------------
vk_realloc(original, size, align, scope) ==
    /\ status = "running"
    /\ UNCHANGED <<threads, serial>>
    /\ all_allocs_ok' = FALSE
    /\ LET l == make_layout(debug, size, align)
       IN  IF l = None
           THEN /\ last' = Observed("realloc", size, align, scope, original,
                                    NULL, NoCall, 0, FALSE)
                /\ UNCHANGED <<debug, allocated, driver_allocated, heap, live,
                               status, failures>>
           ELSE IF ~TagReadable(heap, debug, original)
           THEN /\ UndefinedTagRead("realloc", size, align, scope, original)
                /\ UNCHANGED <<debug, driver_allocated, heap, live, failures>>
           ELSE IF ~validate_alloc(heap, debug, original)
           THEN /\ status' = "panicked"
                /\ last' = Observed("realloc", size, align, scope, original,
                                    NULL, NoCall, 0, TRUE)
                /\ UNCHANGED <<debug, allocated, driver_allocated, heap, live,
                               failures>>
           ELSE
             LET tag == as_tag_and_block(heap, debug, original)
                 old_layout == TagLayout(tag)
                 base_ptr == tag.base
                 grow_or_shrink == GrowOrShrink(old_layout, l)
                 fn == IF grow_or_shrink = Grow THEN "grow" ELSE "shrink"
                 call(r) == [fn |-> fn, ptr |-> base_ptr, old |-> old_layout,
                             new |-> l.layout, result |-> r]
             IN  IF ~OwnsBlock(heap, base_ptr, old_layout)
                 THEN /\ status' = "undefined"
                      /\ allocated' = ReallocCounter(allocated, grow_or_shrink,
                                                     old_layout, l)
                      /\ last' = Observed("realloc", size, align, scope,
                                    original, NULL, call("undefined"), 0, TRUE)
                      /\ UNCHANGED <<debug, driver_allocated, heap, live,
                                     failures>>
                 ELSE
                   \/ /\ failures < MaxFailures
                      /\ failures' = failures + 1
                      /\ allocated' = ReallocCounter(allocated, grow_or_shrink,
                                                     old_layout, l)
                      /\ last' = Observed("realloc", size, align, scope,
                                    original, NULL, call("err"),
                                    live[original], TRUE)
                      /\ heap' = FailedReallocHeap(heap, base_ptr)
                      /\ UNCHANGED <<debug, driver_allocated, live, status>>
                   \/ \E new_base \in Placements(Without(heap, base_ptr),
                                                 l.layout) :
                      LET block == new_base + l.offset
                          new_tag == NewTag(debug, new_base, l.layout, scope)
                      IN  /\ allocated' = ReallocCounter(allocated,
                                             grow_or_shrink, old_layout, l)
                          /\ heap' = With(Without(heap, base_ptr), new_base,
                                 WriteTag(debug,
                                    MovedBlock(heap[base_ptr], l.layout),
                                    l.offset, new_tag))
                          /\ live' = With(Without(live, original), block, size)
                          /\ last' = Observed("realloc", size, align, scope,
                                        original, block, call("ok"),
                                        live[original], TRUE)
                          /\ UNCHANGED <<debug, driver_allocated, status,
                                         failures>>

\* ------------------------------------------------------------------------
\* vk_free
\* ------------------------------------------------------------------------
vk_free(original) ==
    /\ status = "running"
    /\ UNCHANGED <<threads, serial>>
    /\ all_allocs_ok' = FALSE
    /\ IF ~TagReadable(heap, debug, original)
       THEN /\ UndefinedTagRead("free", 0, 0, 0, original)
            /\ UNCHANGED <<debug, driver_allocated, heap, live, failures>>
       ELSE IF ~validate_alloc(heap, debug, original)
       THEN /\ status' = "panicked"
            /\ last' = Observed("free", 0, 0, 0, original, NULL, NoCall, 0,
                                TRUE)
            /\ UNCHANGED <<debug, allocated, driver_allocated, heap, live,
                           failures>>
       ELSE
         LET tag == as_tag_and_block(heap, debug, original)
             size == TagLayout(tag).size
             owned == OwnsBlock(heap, tag.base, TagLayout(tag))
         IN  /\ heap' = IF owned THEN Without(heap, tag.base) ELSE heap
             /\ status' = IF owned THEN status ELSE "undefined"
             /\ allocated' = FreeCounter(allocated, size)
             /\ live' = Without(live, original)
             /\ last' = Observed("free", 0, 0, 0, original, NULL,
                           [fn |-> "deallocate", ptr |-> tag.base,
                            layout |-> TagLayout(tag),
                            result |-> IF owned THEN "ok" ELSE "undefined"],
                           live[original], TRUE)
             /\ UNCHANGED <<debug, driver_allocated, failures>>

\* ------------------------------------------------------------------------
\* The caller fills a payload it holds with a pattern (test::allocate)
\* ------------------------------------------------------------------------
caller_write(p) ==
    /\ status = "running"
    /\ UNCHANGED <<threads, serial>>
    /\ live[p] > 0
    /\ PayloadBytes(heap, p, live[p]) # Pattern(live[p])
    /\ LET b == CHOOSE b \in BlockOf(heap, p) : TRUE
           mem == [i \in DOMAIN heap[b].mem |->
                      IF p - b < i /\ i <= p - b + live[p]
                      THEN Pattern(live[p])[i - (p - b)]
                      ELSE heap[b].mem[i]]
       IN  heap' = [heap EXCEPT ![b].mem = mem,
                                ![b].tags = TagsIn(mem, heap[b].tags)]
    /\ last' = Observed("write", 0, 0, 0, p, NULL, NoCall, 0, FALSE)
    /\ UNCHANGED <<debug, allocated, driver_allocated, live, status, failures,
                   all_allocs_ok>>

Next ==
    \/ \E r \in Requests, scope \in Scopes : vk_alloc(r[1], r[2], scope)
    \/ \E original \in DOMAIN live, r \in Requests, scope \in Scopes :
          vk_realloc(original, r[1], r[2], scope)
    \/ \E original \in DOMAIN live \cup {NULL} : vk_free(original)
    \/ \E p \in DOMAIN live : caller_write(p)

Spec == Init /\ [][Next]_vars

SpecRelease == InitRelease /\ [][Next]_vars

\* ------------------------------------------------------------------------
\* Misuse by the caller: a tag whose magic was overwritten, and a pointer
\* used again right after the call that released it
\* ------------------------------------------------------------------------
Clobbered == "0000000000000000"

MisuseRequests == {<<4, 8>>, <<4, 64>>, <<UsizeMax, 1>>}

StalePointers == {p \in {last.original} : StaleTags(p) # {}}

corrupt_tag(p) ==
    /\ status = "running"
    /\ UNCHANGED <<threads, serial>>
    /\ debug
    /\ TagReadable(heap, debug, p)
    /\ validate_alloc(heap, debug, p)
    /\ LET b == CHOOSE b \in BlockOf(heap, p) : TRUE
           first == TagAddr(debug, p) - b + 1
       IN  heap' = [heap EXCEPT ![b].tags[first].magic = Clobbered]
    /\ last' = Observed("corrupt", 0, 0, 0, p, NULL, NoCall, 0, FALSE)
    /\ UNCHANGED <<debug, allocated, driver_allocated, live, status, failures,
                   all_allocs_ok>>

NextMisuse ==
    \/ \E r \in MisuseRequests, scope \in Scopes : vk_alloc(r[1], r[2], scope)
    \/ \E original \in DOMAIN live \cup StalePointers,
          r \in MisuseRequests, scope \in Scopes :
          vk_realloc(original, r[1], r[2], scope)
    \/ \E original \in DOMAIN live \cup StalePointers : vk_free(original)
    \/ \E p \in DOMAIN live : corrupt_tag(p)

SpecMisuse == Init /\ [][NextMisuse]_vars

\* ------------------------------------------------------------------------
\* Several threads in the callbacks at once, each on a pointer of its own;
\* the underlying allocator does not fail. A callback is cut where it
\* touches what the threads share: the counter and the underlying allocator
\* ------------------------------------------------------------------------
ThreadRequests == {<<4, 8>>, <<8, 8>>, <<4, 64>>}

Others == <<debug, driver_allocated, status, last, failures, all_allocs_ok>>

Racing(t) == threads[t].raced \/ threads[t].seen # allocated

\* vk_alloc up to the fetch_add
t_alloc_enter(t, size, align) ==
    /\ status = "running"
    /\ threads[t].pc = "idle"
    /\ threads[t].ptr = NULL
    /\ LET l == make_layout(debug, size, align)
       IN  /\ l # None
           /\ threads' = [threads EXCEPT ![t] =
                 [@ EXCEPT !.pc = "alloc_fetch_add", !.l = l,
                           !.seen = allocated]]
    /\ UNCHANGED <<allocated, heap, live, serial>>
    /\ UNCHANGED Others

\* data.allocated.fetch_add(layout.0.size())
t_alloc_fetch_add(t) ==
    /\ threads[t].pc = "alloc_fetch_add"
    /\ allocated' = AllocCounter(AtomicRead(allocated, threads[t].seen),
                                 threads[t].l)
    /\ threads' = [threads EXCEPT ![t] =
          [@ EXCEPT !.pc = "alloc_allocate", !.raced = Racing(t)]]
    /\ UNCHANGED <<heap, live, serial>>
    /\ UNCHANGED Others

\* allocate, the tag, and the return
t_alloc_allocate(t) ==
    /\ threads[t].pc = "alloc_allocate"
    /\ \E base \in Placements(heap, threads[t].l.layout), scope \in Scopes :
       LET l == threads[t].l
           block == base + l.offset
           tag == NewTag(debug, base, l.layout, scope)
       IN  /\ heap' = With(heap, base,
                 WriteTag(debug, AllocBlock(l.layout), l.offset, tag))
           /\ live' = With(live, block, l.layout.size - l.offset)
           /\ threads' = [threads EXCEPT ![t] =
                 IdleThread(block, threads[t].raced)]
           /\ serial' = AllocCounter(serial, l)
    /\ UNCHANGED allocated
    /\ UNCHANGED Others

\* vk_realloc up to the grow or shrink it asks of the underlying allocator
t_realloc_move(t, size, align) ==
    /\ status = "running"
    /\ threads[t].pc = "idle"
    /\ threads[t].ptr # NULL
    /\ validate_alloc(heap, debug, threads[t].ptr)
    /\ LET original == threads[t].ptr
           l == make_layout(debug, size, align)
           tag == as_tag_and_block(heap, debug, original)
       IN  /\ l # None
           /\ \E new_base \in Placements(Without(heap, tag.base), l.layout) :
              /\ heap' = With(Without(heap, tag.base), new_base,
                    MovedBlock(heap[tag.base], l.layout))
              /\ live' = With(Without(live, original), new_base + l.offset,
                              size)
              /\ threads' = [threads EXCEPT ![t] =
                    [@ EXCEPT !.pc = "realloc_fetch",
                              !.ptr = new_base + l.offset, !.l = l,
                              !.old = TagLayout(tag), !.seen = allocated]]
    /\ UNCHANGED <<allocated, serial>>
    /\ UNCHANGED Others

\* the fetch_add or fetch_sub of vk_realloc, the new tag, and the return
t_realloc_fetch(t) ==
    /\ threads[t].pc = "realloc_fetch"
    /\ \E scope \in Scopes :
       LET l == threads[t].l
           old_layout == threads[t].old
           grow_or_shrink == GrowOrShrink(old_layout, l)
           base == threads[t].ptr - l.offset
       IN  /\ allocated' = ReallocCounter(
                 AtomicRead(allocated, threads[t].seen), grow_or_shrink,
                 old_layout, l)
           /\ heap' = [heap EXCEPT ![base] =
                 WriteTag(debug, @, l.offset,
                          NewTag(debug, base, l.layout, scope))]
           /\ serial' = ReallocCounter(serial, grow_or_shrink, old_layout, l)
    /\ threads' = [threads EXCEPT ![t] = IdleThread(threads[t].ptr, Racing(t))]
    /\ UNCHANGED live
    /\ UNCHANGED Others

\* vk_free up to the deallocate
t_free_deallocate(t) ==
    /\ status = "running"
    /\ threads[t].pc = "idle"
    /\ threads[t].ptr # NULL
    /\ validate_alloc(heap, debug, threads[t].ptr)
    /\ LET tag == as_tag_and_block(heap, debug, threads[t].ptr)
       IN  /\ heap' = Without(heap, tag.base)
           /\ live' = Without(live, threads[t].ptr)
           /\ threads' = [threads EXCEPT ![t] =
                 [@ EXCEPT !.pc = "free_fetch_sub", !.ptr = NULL,
                           !.old = TagLayout(tag), !.seen = allocated]]
    /\ UNCHANGED <<allocated, serial>>
    /\ UNCHANGED Others

\* data.allocated.fetch_sub(size), and the return
t_free_fetch_sub(t) ==
    /\ threads[t].pc = "free_fetch_sub"
    /\ allocated' = FreeCounter(AtomicRead(allocated, threads[t].seen),
                                threads[t].old.size)
    /\ serial' = FreeCounter(serial, threads[t].old.size)
    /\ threads' = [threads EXCEPT ![t] = IdleThread(NULL, Racing(t))]
    /\ UNCHANGED <<heap, live>>
    /\ UNCHANGED Others

NextThreads ==
    \E t \in Tids :
       \/ \E r \in ThreadRequests : t_alloc_enter(t, r[1], r[2])
       \/ t_alloc_fetch_add(t)
       \/ t_alloc_allocate(t)
       \/ \E r \in ThreadRequests : t_realloc_move(t, r[1], r[2])
       \/ t_realloc_fetch(t)
       \/ t_free_deallocate(t)
       \/ t_free_fetch_sub(t)

SpecThreads == Init /\ [][NextThreads]_vars

\* ------------------------------------------------------------------------
\* make_layout on its own: every size and align up to LayoutSpan, the sizes
\* up to LayoutSpan below isize::MAX, every power of two, and usize::MAX
\* ------------------------------------------------------------------------
LayoutSizes ==
    (0..LayoutSpan) \cup ((IsizeMax - LayoutSpan)..IsizeMax) \cup {UsizeMax}

LayoutAligns ==
    (0..LayoutSpan) \cup {2^k : k \in 0..(UsizeBits - 1)} \cup {UsizeMax}

InitLayout ==
    /\ debug \in BOOLEAN
    /\ allocated = 0
    /\ driver_allocated = 0
    /\ heap = <<>>
    /\ live = <<>>
    /\ status = "running"
    /\ \E size \in LayoutSizes, align \in LayoutAligns :
          last = [op |-> "request", size |-> size, align |-> align,
                  scope |-> 0, original |-> NULL, ret |-> NULL,
                  pre_allocated |-> 0, call |-> NoCall, old_size |-> 0,
                  read_tag |-> FALSE]
    /\ failures = 0
    /\ all_allocs_ok = TRUE
    /\ threads = [t \in Tids |-> IdleThread(NULL, FALSE)]
    /\ serial = 0

call_make_layout ==
    /\ last.op = "request"
    /\ last' = [last EXCEPT
                   !.op = "make_layout",
                   !.call = [fn |-> "make_layout",
                             result |-> make_layout(debug, last.size,
                                                    last.align)]]
    /\ UNCHANGED <<debug, allocated, driver_allocated, heap, live, status,
                   failures, all_allocs_ok, threads, serial>>

NextLayout == call_make_layout

SpecLayout == InitLayout /\ [][NextLayout]_vars

\* ------------------------------------------------------------------------
\* Properties
\* ------------------------------------------------------------------------
RECURSIVE SumOf(_, _)
SumOf(f, S) ==
    IF S = {} THEN 0
    ELSE LET x == CHOOSE x \in S : TRUE IN f[x] + SumOf(f, S \ {x})

Initialized(bytes) == \A i \in DOMAIN bytes : bytes[i] >= 0

ReallocReturned == last.op = "realloc" /\ last.ret # NULL

ReallocReturnedNull ==
    last.op = "realloc" /\ last.ret = NULL /\ status = "running"

\* C1: when vk_realloc returns null, the original payload pointer stays
\* live, its block is neither deallocated nor moved, the tag and the payload
\* are what they were before the call, and the tag still names a block of
\* the underlying allocator with the layout it was obtained with, so that
\* vk_free of the original deallocates that block.
C1_FailedReallocKeepsOriginal ==
    [][ReallocReturnedNull' =>
          /\ heap' = heap
          /\ live' = live
          /\ last'.original \in DOMAIN live'
          /\ TagReadable(heap', debug', last'.original)
          /\ validate_alloc(heap', debug', last'.original)
          /\ LET tag == as_tag_and_block(heap', debug', last'.original)
             IN  /\ OwnsBlock(heap', tag.base, TagLayout(tag))
                 /\ BlockOf(heap', last'.original) = {tag.base}]_vars

\* a vk_realloc returned null because the underlying allocator failed, while
\* the caller had written the payload of the original
C1_Witness ==
    /\ ReallocReturnedNull
    /\ last.call.fn \in {"grow", "shrink"}
    /\ last.call.result = "err"
    /\ last.original \in DOMAIN live
    /\ PayloadBytes(heap, last.original, live[last.original])
          = Pattern(live[last.original])

\* C2: after a successful vk_realloc, the first min(old_size, new_size)
\* bytes read through the returned pointer are the bytes the original
\* payload held before the call, whatever the old and the new align.
C2_ReallocKeepsPayload ==
    [][(ReallocReturned'
          /\ Initialized(PayloadBytes(heap, last'.original,
                                      Min(last'.old_size, last'.size))))
        => PayloadBytes(heap', last'.ret, Min(last'.old_size, last'.size))
             = PayloadBytes(heap, last'.original,
                            Min(last'.old_size, last'.size))]_vars

\* C3: every non-null pointer vk_alloc or vk_realloc returns for a request
\* whose align is a power of two is a multiple of that align.
C3_ReturnedPointerAligned ==
    (last.op \in {"alloc", "realloc"} /\ last.ret # NULL
        /\ IsPowerOfTwo(last.align))
    => last.ret % last.align = 0

\* a vk_realloc returned a pointer for an align above the tag's own
C3_Witness ==
    /\ ReallocReturned
    /\ last.align > AlignOfMemoryTag
    /\ IsPowerOfTwo(last.align)
    /\ last.call.ptr # last.ret - make_layout(debug, last.size, last.align).offset

\* the tag, its padding and the payload together exceed usize
LayoutOverflows(dbg, size, align) ==
    LET hdr == SizeOfMemoryTag(dbg)
        a == Max(align, AlignOfMemoryTag)
        offset == ((hdr + a - 1) \div a) * a
    IN  offset + size > UsizeMax

\* C4: vk_alloc returns null, calls nothing of the underlying allocator and
\* leaves allocated alone for every request whose align is not a power of
\* two and for every request whose combined size overflows.
C4_InvalidRequestRejected ==
    (last.op = "alloc"
        /\ (~IsPowerOfTwo(last.align)
              \/ LayoutOverflows(debug, last.size, last.align)))
    => (last.ret = NULL /\ last.call = NoCall
          /\ allocated = last.pre_allocated)

\* C5: after successful vk_alloc calls only, allocated is the sum of the
\* payload sizes requested.
C5_CounterIsSumOfRequestedSizes ==
    all_allocs_ok => allocated = SumOf(live, DOMAIN live)

\* C6: when no call of the underlying allocator has failed and every pointer
\* issued has been freed, allocated is back at 0.
C6_AllFreedCounterRestored ==
    (status = "running" /\ failures = 0 /\ DOMAIN live = {})
    => allocated = 0

\* vk_free has deallocated the last live pointer's block, the counter was
\* above 0 before it, and no call of the underlying allocator had failed
C6_Witness ==
    /\ last.op = "free"
    /\ last.call.fn = "deallocate"
    /\ status = "running"
    /\ failures = 0
    /\ DOMAIN live = {}
    /\ last.pre_allocated > 0

\* C7: a successful vk_realloc changes allocated by new_size - old_size,
\* the payload sizes, for any old and new align.
C7_ReallocCounterDelta ==
    ReallocReturned
    => allocated = Wrap(last.pre_allocated + last.size - last.old_size)

\* C8: when the underlying allocator fails the request of vk_alloc, vk_alloc
\* returns null and allocated is what it was before the call.
C8_FailedAllocCounterUnchanged ==
    (last.op = "alloc" /\ last.call.fn = "allocate"
        /\ last.call.result = "err")
    => (last.ret = NULL /\ allocated = last.pre_allocated)

\* C9: when vk_realloc returns null, allocated is what it was before the
\* call.
C9_FailedReallocCounterUnchanged ==
    ReallocReturnedNull => allocated = last.pre_allocated

\* C10: vk_free of a null pointer does nothing: it reads no tag, fails no
\* assertion, calls nothing of the underlying allocator and leaves allocated
\* alone.
C10_FreeNullIsNoOp ==
    (last.op = "free" /\ last.original = NULL)
    => (status = "running" /\ ~last.read_tag /\ last.call = NoCall
          /\ allocated = last.pre_allocated)

\* the tag found right before a payload pointer
TagOf(p) == as_tag_and_block(heap, debug, p)

AllocOrReallocReturned ==
    last.op \in {"alloc", "realloc"} /\ last.ret # NULL /\ status = "running"

\* C11: after a successful vk_alloc or vk_realloc, the tag recovered from
\* the returned pointer records the payload size and the align of the
\* request, and its magic validates.
C11_TagRecordsRequest ==
    AllocOrReallocReturned
    => /\ TagReadable(heap, debug, last.ret)
       /\ validate_alloc(heap, debug, last.ret)
       /\ TagOf(last.ret).size = last.size
       /\ TagOf(last.ret).align = last.align

\* the cells from..to of memory hold one whole tag
HoldsTag(from, to) ==
    /\ Load(heap, from) = TagStart
    /\ \A a \in (from + 1)..(to - 1) : Load(heap, a) = TagRest

\* C12: for every payload pointer p issued, the tag occupies
\* [p - sizeof(MemoryTag), p), inside the block [base, base + combined
\* size); the base recorded is the start of the block the underlying
\* allocator returned and is at or before the tag; the tag's address is a
\* multiple of 8.
C12_TagPlacement ==
    status = "running"
    => \A p \in DOMAIN live :
         LET at == p - SizeOfMemoryTag(debug)
         IN  /\ HoldsTag(at, p)
             /\ TagOf(p).base \in DOMAIN heap
             /\ BlockOf(heap, at) = {TagOf(p).base}
             /\ TagOf(p).base <= at
             /\ p <= TagOf(p).base + heap[TagOf(p).base].layout.size
             /\ at % AlignOfMemoryTag = 0

\* a vk_realloc has moved a payload to a block where padding precedes the
\* tag
C12_Witness ==
    /\ ReallocReturned
    /\ status = "running"
    /\ last.ret \in DOMAIN live
    /\ TagOf(last.ret).base < last.ret - SizeOfMemoryTag(debug)
    /\ TagOf(last.ret).base # last.call.ptr

\* what the last call took off the counter with fetch_sub
Subtracted ==
    IF last.op = "free" /\ last.call.fn = "deallocate"
    THEN last.call.layout.size
    ELSE IF last.op = "realloc" /\ last.call.fn = "shrink"
    THEN last.call.old.size - last.call.new.size
    ELSE 0

\* C13: with vk_realloc and vk_free applied to live pointers only, also
\* when the underlying allocator fails requests, no fetch_sub takes more
\* off allocated than its value.
C13_NoUnderflow == Subtracted <= last.pre_allocated

\* C18: every grow, shrink and deallocate is passed the start of a block of
\* the underlying allocator and the layout that block was last obtained
\* with; grow is called only when the new combined size is greater than the
\* old one, shrink only when it is less or equal.
C18_UnderlyingCallsMatchBlock ==
    [][(last'.call.fn \in {"grow", "shrink", "deallocate"} /\ last' # last)
       => /\ last'.call.result # "undefined"
          /\ last'.call.fn = "deallocate"
               => OwnsBlock(heap, last'.call.ptr, last'.call.layout)
          /\ last'.call.fn \in {"grow", "shrink"}
               => /\ OwnsBlock(heap, last'.call.ptr, last'.call.old)
                  /\ (last'.call.fn = "grow")
                       = (last'.call.new.size > last'.call.old.size)]_vars

\* vk_free deallocates a block obtained with an align above the tag's own,
\* after the underlying allocator had failed a request
C18_Witness ==
    /\ last.op = "free"
    /\ last.call.fn = "deallocate"
    /\ last.call.result = "ok"
    /\ last.call.layout.align > AlignOfMemoryTag
    /\ failures > 0

\* C19: no vk_alloc, vk_realloc or vk_free changes driver_allocated: it is
\* 0 in every reachable state.
C19_DriverAllocatedUntouched == driver_allocated = 0

\* calls of all three kinds have been made, one of them failed by the
\* underlying allocator, and a pointer is live
C19_Witness ==
    /\ last.op = "free"
    /\ last.call.fn = "deallocate"
    /\ failures > 0
    /\ DOMAIN live # {}
    /\ allocated > 0

TagSizes == [p \in DOMAIN live |-> TagOf(p).size]

\* C20: between calls, allocated is the sum of the sizes the tags of the
\* live payload pointers record, also after calls the underlying allocator
\* failed.
C20_CounterIsSumOfTagSizes ==
    status = "running" => allocated = Wrap(SumOf(TagSizes, DOMAIN live))

\* C17: whenever make_layout succeeds, the payload offset is the smallest
\* multiple of max(align, alignof(MemoryTag)) that is at least
\* sizeof(MemoryTag), the combined size is that offset plus size, and the
\* combined align is max(align, alignof(MemoryTag)).
C17_LayoutShape ==
    (last.op = "make_layout" /\ last.call.result # None)
    => LET a == Max(last.align, AlignOfMemoryTag)
           r == last.call.result
       IN  /\ r.offset % a = 0
           /\ r.offset >= SizeOfMemoryTag(debug)
           /\ r.offset - a < SizeOfMemoryTag(debug)
           /\ r.layout.size = r.offset + last.size
           /\ r.layout.align = a

\* make_layout succeeded on an align above the tag's own that needs padding
\* between the tag and the payload
C17_Witness ==
    /\ last.op = "make_layout"
    /\ last.call.result # None
    /\ last.align > AlignOfMemoryTag
    /\ last.size > 0
    /\ last.call.result.offset > SizeOfMemoryTag(debug)

\* C15: in a debug build, a vk_free or vk_realloc on a pointer whose tag
\* holds another magic than MT_MAGIC fails the assertion, whatever the new
\* (size, align), before any call to the underlying allocator and before any
\* change to the allocated counter.
C15_BadMagicAssertsFirst ==
    [][(/\ debug
        /\ last'.op \in {"free", "realloc"}
        /\ TagReadable(heap, debug, last'.original)
        /\ ~validate_alloc(heap, debug, last'.original))
       => (/\ status' = "panicked"
           /\ allocated' = allocated
           /\ last'.call = NoCall)]_vars

\* C16: in a debug build, a vk_free or vk_realloc on a pointer that was freed
\* or that a vk_realloc moved away from fails the assertion: nothing is
\* deallocated a second time and the allocated counter is not touched.
C16_StaleUseAsserts ==
    [][(/\ debug
        /\ last'.op \in {"free", "realloc"}
        /\ last'.original # NULL
        /\ last'.original \notin DOMAIN live)
       => (/\ status' = "panicked"
           /\ allocated' = allocated
           /\ heap' = heap
           /\ last'.call = NoCall)]_vars

Quiescent == \A t \in Tids : threads[t].pc = "idle"

\* C14: when threads run vk_alloc, vk_realloc and vk_free at the same time,
\* each on its own pointer, and the underlying allocator never fails, then
\* once every call has returned the allocated counter is what the same
\* calls leave when run one after another.
C14_NoLostCounterUpdate == Quiescent => allocated = serial

\* every call has returned, a block is still held, and some call updated the
\* counter after another thread had changed it under that call
C14_Witness ==
    /\ Quiescent
    /\ \E t \in Tids : threads[t].raced
    /\ \E t \in Tids : threads[t].ptr # NULL
    /\ allocated = serial

====
